---- MODULE Spec2Model ----
(***************************************************************************)
(* Model of cmd/observer/database (db.go, db_sqlite.go): the nodes table,  *)
(* the single-statement operations of DBSQLite, and the two Take           *)
(* operations, which are sequences of statements run by concurrent         *)
(* workers against one database.                                           *)
(*                                                                         *)
(* Time is counted in ticks; TicksPerSec ticks make one second.            *)
(* time.Now().Unix() is the clock truncated to whole seconds, and a        *)
(* time.Duration is a number of ticks.  Each SQL statement is one atomic   *)
(* step (SQLite serialises statements), and the time.Now() a handler reads *)
(* right before its statement belongs to the same step.                    *)
(***************************************************************************)
EXTENDS Integers, Sequences, FiniteSets, TLC

\* ------------------------------------------------------------------ bounds
TicksPerSec == 2
MaxTicks == 3
MaxTry == 2
MaxLimit == 2
MaxDuration == 2

NodeIDs == {"n1", "n2"}
Workers == {"w1", "w2"}
Epoch == 10 * TicksPerSec

\* ------------------------------------------------------------- SQL values
\* A NULL integer column; every integer the code stores is >= 0.
NULL == -1
\* A nullable TEXT column is <<>> (NULL) or <<s>>.
NullString == <<>>
Text(s) == <<s>>

\* sqlMarkTakenHandshakeCandidates writes this literal into handshake_err.
TakenTag == "taken"
\* The error tags workers report, and the tags a caller may name as transient.
ErrTags == {"timeout", "other"}
TransientTags == ErrTags \cup {TakenTag}
ClientIDs == {"foo"}

\* compat_fork holds the driver's encoding of a Go bool.
BoolToSQL(b) == IF b THEN 1 ELSE 0
SQLTrue == 1

\* time.Time.Unix(): whole seconds, rounded down.
Unix(t) == t \div TicksPerSec

\* ------------------------------------------------------------ the table
\* The row INSERT creates: the address columns from the statement, every
\* other column at its schema default.
NewRow(ip, portDisc, portRLPx, ipV6, ipV6PortDisc, ipV6PortRLPx, updated) ==
    [exists |-> TRUE,
     ip |-> ip, port_disc |-> portDisc, port_rlpx |-> portRLPx,
     ip_v6 |-> ipV6, ip_v6_port_disc |-> ipV6PortDisc,
     ip_v6_port_rlpx |-> ipV6PortRLPx,
     addr_updated |-> updated,
     ping_try |-> 0,
     compat_fork |-> NULL, compat_fork_updated |-> NULL,
     client_id |-> NullString,
     handshake_err |-> NullString, handshake_try |-> 0,
     handshake_updated |-> NULL,
     neighbor_keys |-> NullString,
     taken_last |-> NULL]

\* No row with the id: the columns of the record are never read.
NoRow == [NewRow(NullString, NULL, NULL, NullString, NULL, NULL, NULL) EXCEPT !.exists = FALSE]

Rows(tbl) == {id \in NodeIDs : tbl[id].exists}

\* A row UpdateForkCompatibility(id, false) wrote last.
Incompatible(row) == row.exists /\ row.compat_fork = BoolToSQL(FALSE)

\* ------------------------------------------------------------- variables
VARIABLES
    nodes,      \* the nodes table: NodeIDs -> row or NoRow
    now,        \* the clock, in ticks
    pc,         \* per worker: where its Take call stands
    call,       \* per worker: the kind and parameters of its Take call
    ids,        \* per worker: the ids its Find returned
    ret,        \* per worker: "none", "ok" or "error": what the call returned
    wrote,      \* per worker: the ids whose rows its call has updated
    overlap,    \* per worker: the workers whose call ran during its call
    sawBad,     \* per worker: the ids its Find returned that were then
                \* fork-incompatible, or claimed and cooling down (see NoneBad)
    hist        \* per node: history of the operations on it (see NoHist)

vars == <<nodes, now, pc, call, ids, ret, wrote, overlap, sawBad,
          hist>>

\* History kept per node, read by the properties only:
\*   lastMark   the clock at the last crawl mark of the node, or NULL
\*   lastClaim  the clock at the last handshake claim of the node, or NULL
\*   hsLast     the last statement that wrote the handshake columns
\*   claimEligible  the node was a candidate, for the claiming call's
\*              parameters, when its current claim was written
\*   lastAddr   the addr of the last UpsertNodeAddr of the node
\*   hsErrs     UpdateHandshakeError calls since the last UpdateClientID
\*   okOver     what the UpdateClientID that wrote the handshake columns
\*              last replaced: the 'taken' sentinel, a try count above
\*              every cap
\*   resets     ResetPingError calls since the last UpdatePingError (capped)
\*   errs       UpdatePingError calls since ping_try was last 0 by
\*              creation or reset
NoOver == [taken |-> FALSE, over |-> FALSE]

NoHist == [lastMark |-> NULL, lastClaim |-> NULL, hsLast |-> "none",
           claimEligible |-> FALSE, okOver |-> NoOver, hsErrs |-> 0, resets |-> 0, errs |-> 0,
           lastAddr |-> NULL]

\* What a Find must not return, kept per worker when its Find runs:
\*   incompatible  the found ids whose row was fork-incompatible
\*   cooling       the found ids marked (crawl) or claimed and not yet
\*                 reported (handshake) less than the call's cooldown ago
NoneBad == [incompatible |-> {}, cooling |-> {}]

\* ------------------------------------------------------- SQL comparisons
\* A comparison with NULL is NULL, which a WHERE clause treats as false.
SqlLt(a, b) == a # NULL /\ b # NULL /\ a < b
SqlLe(a, b) == a # NULL /\ b # NULL /\ a <= b
SqlEq(a, b) == a # NULL /\ b # NULL /\ a = b
SqlTextEq(col, s) == col # NullString /\ col = Text(s)

\* An engine that sorts NULL after every value.
SortsBefore_NullsLast(a, b) ==
    \/ a # NULL /\ b = NULL
    \/ a # NULL /\ b # NULL /\ a < b

\* ORDER BY col (ascending): SQLite sorts NULL before every value.
SortsBefore(a, b) ==
    \/ a = NULL /\ b # NULL
    \/ a # NULL /\ b # NULL /\ a < b

Min(a, b) == IF a <= b THEN a ELSE b

\* SELECT ... LIMIT limit without the ORDER BY.
OrderLimit_Unordered(elig, key, limit) ==
    {S \in SUBSET elig : Cardinality(S) = Min(limit, Cardinality(elig))}

\* The result sets a SELECT ... ORDER BY key LIMIT limit may return over the
\* rows `elig` that pass its WHERE clause, key[id] being the sort column of
\* row id: rows with equal keys come in an order the engine chooses.
OrderLimit(elig, key, limit) ==
    {S \in SUBSET elig :
        /\ Cardinality(S) = Min(limit, Cardinality(elig))
        /\ \A x \in S : \A y \in elig \ S : ~SortsBefore(key[y], key[x])}

\* ------------------------------------------------- handshake scheduler
\* sqlFindHandshakeCandidates without the transient-error clause.
HandshakeWhere_NoBypass(row, updatedOKBefore, updatedErrBefore, maxHandshakeTries, transientErr) ==
    /\ \/ row.handshake_updated = NULL
       \/ /\ SqlLt(row.handshake_updated, updatedOKBefore)
          /\ row.handshake_err = NullString
       \/ /\ SqlLt(row.handshake_updated, updatedErrBefore)
          /\ row.handshake_err # NullString
    /\ (SqlEq(row.compat_fork, SQLTrue) \/ row.compat_fork = NULL)
    /\ SqlLe(row.handshake_try, maxHandshakeTries)

\* The WHERE clause of sqlFindHandshakeCandidates.
HandshakeWhere(row, updatedOKBefore, updatedErrBefore, maxHandshakeTries, transientErr) ==
    /\ \/ row.handshake_updated = NULL
       \/ /\ SqlLt(row.handshake_updated, updatedOKBefore)
          /\ row.handshake_err = NullString
       \/ /\ SqlLt(row.handshake_updated, updatedErrBefore)
          /\ row.handshake_err # NullString
    /\ (SqlEq(row.compat_fork, SQLTrue) \/ row.compat_fork = NULL)
    /\ \/ SqlLe(row.handshake_try, maxHandshakeTries)
       \/ SqlTextEq(row.handshake_err, transientErr)

HandshakeParams ==
    [minUnusedOKDuration : 0..MaxDuration,
     minUnusedErrDuration : 0..MaxDuration,
     maxHandshakeTries : 0..MaxTry,
     transientErr : TransientTags,
     limit : 0..MaxLimit]

\* The rows that pass the WHERE clause at clock t.
HandshakeEligible(tbl, t, p) ==
    {id \in Rows(tbl) :
        HandshakeWhere(tbl[id],
                       Unix(t - p.minUnusedOKDuration),
                       Unix(t - p.minUnusedErrDuration),
                       p.maxHandshakeTries, p.transientErr)}

\* The results FindHandshakeCandidates may return at clock t.
FindHandshakeCandidates(tbl, t, p) ==
    LET key == [id \in NodeIDs |-> tbl[id].handshake_updated]
    IN  OrderLimit(HandshakeEligible(tbl, t, p), key, p.limit)

\* ------------------------------------------------------ crawl scheduler
\* sqlFindCandidates with <= written for < in the cooldown clause.
CandidateWhere_CooldownLe(row, takenLastBefore, maxPingTries, maxHandshakeTries, transientHandshakeErr) ==
    /\ (row.taken_last = NULL \/ SqlLe(row.taken_last, takenLastBefore))
    /\ (SqlEq(row.compat_fork, SQLTrue) \/ row.compat_fork = NULL)
    /\ SqlLe(row.ping_try, maxPingTries)
    /\ \/ SqlLe(row.handshake_try, maxHandshakeTries)
       \/ SqlTextEq(row.handshake_err, transientHandshakeErr)

\* sqlFindCandidates with < written for <= in the ping clause.
CandidateWhere_PingLt(row, takenLastBefore, maxPingTries, maxHandshakeTries, transientHandshakeErr) ==
    /\ (row.taken_last = NULL \/ SqlLt(row.taken_last, takenLastBefore))
    /\ (SqlEq(row.compat_fork, SQLTrue) \/ row.compat_fork = NULL)
    /\ SqlLt(row.ping_try, maxPingTries)
    /\ \/ SqlLe(row.handshake_try, maxHandshakeTries)
       \/ SqlTextEq(row.handshake_err, transientHandshakeErr)

\* sqlFindCandidates with IS NOT NULL written for IS NULL in the fork clause.
CandidateWhere_ForkNotNull(row, takenLastBefore, maxPingTries, maxHandshakeTries, transientHandshakeErr) ==
    /\ (row.taken_last = NULL \/ SqlLt(row.taken_last, takenLastBefore))
    /\ (SqlEq(row.compat_fork, SQLTrue) \/ row.compat_fork # NULL)
    /\ SqlLe(row.ping_try, maxPingTries)
    /\ \/ SqlLe(row.handshake_try, maxHandshakeTries)
       \/ SqlTextEq(row.handshake_err, transientHandshakeErr)

\* The WHERE clause of sqlFindCandidates.
CandidateWhere(row, takenLastBefore, maxPingTries, maxHandshakeTries, transientHandshakeErr) ==
    /\ (row.taken_last = NULL \/ SqlLt(row.taken_last, takenLastBefore))
    /\ (SqlEq(row.compat_fork, SQLTrue) \/ row.compat_fork = NULL)
    /\ SqlLe(row.ping_try, maxPingTries)
    /\ \/ SqlLe(row.handshake_try, maxHandshakeTries)
       \/ SqlTextEq(row.handshake_err, transientHandshakeErr)

CandidateParams ==
    [minUnusedDuration : 0..MaxDuration,
     maxPingTries : 0..MaxTry,
     maxHandshakeTries : 0..MaxTry,
     transientHandshakeErr : TransientTags,
     limit : 0..MaxLimit]

CandidateEligible(tbl, t, p) ==
    {id \in Rows(tbl) :
        CandidateWhere(tbl[id], Unix(t - p.minUnusedDuration),
                       p.maxPingTries, p.maxHandshakeTries,
                       p.transientHandshakeErr)}

\* The results FindCandidates may return at clock t.
FindCandidates(tbl, t, p) ==
    LET key == [id \in NodeIDs |-> tbl[id].taken_last]
    IN  OrderLimit(CandidateEligible(tbl, t, p), key, p.limit)

\* ----------------------------------------------------------- addresses
\* A net.IP is nil or a byte slice; the model keeps its length in bytes,
\* whether its first twelve bytes are the IPv4-in-IPv6 prefix (v4in6), and
\* one number standing for the remaining bytes.  A NodeAddr is the IPv4
\* NodeAddr1 and the IPv6 NodeAddr1.
NilIP == [len |-> 0, host |-> 0, isNil |-> TRUE, v4in6 |-> FALSE]
IPv4(h) == [len |-> 4, host |-> h, isNil |-> FALSE, v4in6 |-> FALSE]
IPv6(h) == [len |-> 16, host |-> h, isNil |-> FALSE, v4in6 |-> FALSE]
IPv4In6(h) == [len |-> 16, host |-> h, isNil |-> FALSE, v4in6 |-> TRUE]

\* net.IP.To4(): the 4-byte form of an IPv4 address, or nil.
To4(ip) ==
    CASE ip.len = 4 -> ip
      [] ip.len = 16 /\ ip.v4in6 -> IPv4(ip.host)
      [] OTHER -> NilIP

\* net.IP.String(): the text of the address, dotted for an IPv4 address in
\* either form; nil and slices of a wrong length have texts that are not
\* addresses.
IPString(ip) ==
    CASE ip.isNil \/ ip.len = 0 -> <<"<nil>", 0>>
      [] ~To4(ip).isNil -> <<"v4", ip.host>>
      [] ip.len = 16 -> <<"v6", ip.host>>
      [] OTHER -> <<"?", ip.host>>

\* net.ParseIP(): the 16-byte form of the address the text names, or nil.
ParseIP(text) ==
    CASE text[1] = "v4" -> IPv4In6(text[2])
      [] text[1] = "v6" -> IPv6(text[2])
      [] OTHER -> NilIP

\* net.IP.Equal(): the same address, an IPv4 address and its IPv6 form
\* being equal.
IPEqual(a, b) ==
    \/ a.len = b.len /\ a.host = b.host /\ a.v4in6 = b.v4in6
    \/ /\ ~To4(a).isNil /\ ~To4(b).isNil
       /\ To4(a).host = To4(b).host

NodeAddr(ip, portDisc, portRLPx, ipV6, ipV6PortDisc, ipV6PortRLPx) ==
    [IP |-> ip, PortDisc |-> portDisc, PortRLPx |-> portRLPx,
     IPv6 |-> [IP |-> ipV6, PortDisc |-> ipV6PortDisc,
               PortRLPx |-> ipV6PortRLPx]]

\* The addresses the discovery stage upserts in the scheduling
\* specifications.
SchedAddrs == {NodeAddr(IPv4(1), 30303, 30303, NilIP, 0, 0)}

\* The addresses a caller may pass: per stack no IP or an IP address (an
\* IPv4 address in its 4-byte or its 16-byte form), any ports.
DiscPorts == {0, 30303}
RLPxPorts == {0, 65535}
IPs == {NilIP, IPv4(1), IPv4In6(1), IPv6(2)}
Addrs ==
    {NodeAddr(ip, pd, pr, ip6, pd6, pr6) :
        ip \in IPs, pd \in DiscPorts, pr \in RLPxPorts,
        ip6 \in IPs, pd6 \in DiscPorts, pr6 \in RLPxPorts}

\* UpsertNodeAddr binding its ports whether or not the stack has an IP.
UpsertArgs_KeepPorts(addr) ==
    LET ip == IF ~addr.IP.isNil THEN Text(IPString(addr.IP)) ELSE NullString
        ipV6 == IF ~addr.IPv6.IP.isNil THEN Text(IPString(addr.IPv6.IP))
                ELSE NullString
        port(present, value) == IF value # 0 THEN value ELSE NULL
    IN  [ip |-> ip,
         portDisc |-> port(ip, addr.PortDisc),
         portRLPx |-> port(ip, addr.PortRLPx),
         ipV6 |-> ipV6,
         ipV6PortDisc |-> port(ipV6, addr.IPv6.PortDisc),
         ipV6PortRLPx |-> port(ipV6, addr.IPv6.PortRLPx)]

\* The arguments UpsertNodeAddr binds to sqlUpsertNodeAddr.
UpsertArgs(addr) ==
    LET ip == IF ~addr.IP.isNil THEN Text(IPString(addr.IP)) ELSE NullString
        ipV6 == IF ~addr.IPv6.IP.isNil THEN Text(IPString(addr.IPv6.IP))
                ELSE NullString
        port(present, value) ==
            IF present # NullString /\ value # 0 THEN value ELSE NULL
    IN  [ip |-> ip,
         portDisc |-> port(ip, addr.PortDisc),
         portRLPx |-> port(ip, addr.PortRLPx),
         ipV6 |-> ipV6,
         ipV6PortDisc |-> port(ipV6, addr.IPv6.PortDisc),
         ipV6PortRLPx |-> port(ipV6, addr.IPv6.PortRLPx)]

\* sqlUpsertNodeAddr as INSERT OR REPLACE: a conflicting row is replaced by
\* a new one.
UpsertRow_Replace(row, a, updated) ==
    NewRow(a.ip, a.portDisc, a.portRLPx, a.ipV6, a.ipV6PortDisc,
           a.ipV6PortRLPx, updated)

\* sqlUpsertNodeAddr on one row: INSERT, or on conflict overwrite the
\* address columns.
UpsertRow(row, a, updated) ==
    IF row.exists
    THEN [row EXCEPT !.ip = a.ip, !.port_disc = a.portDisc,
                     !.port_rlpx = a.portRLPx, !.ip_v6 = a.ipV6,
                     !.ip_v6_port_disc = a.ipV6PortDisc,
                     !.ip_v6_port_rlpx = a.ipV6PortRLPx,
                     !.addr_updated = updated]
    ELSE NewRow(a.ip, a.portDisc, a.portRLPx, a.ipV6, a.ipV6PortDisc,
                a.ipV6PortRLPx, updated)

\* ---------------------------------------------- single-row statements
\* Each is the SET clause of one UPDATE applied to the row it matches.
ResetPingErrorRow(row) == [row EXCEPT !.ping_try = 0]

\* sqlUpdatePingError setting the counter instead of incrementing it.
\* sqlUpdatePingError writing back the value it found.
UpdatePingErrorRow_Lost(row) == [row EXCEPT !.ping_try = row.ping_try]

UpdatePingErrorRow_SetOne(row) == [row EXCEPT !.ping_try = 1]

UpdatePingErrorRow(row) == [row EXCEPT !.ping_try = row.ping_try + 1]

\* sqlUpdateClientID without handshake_try = 0.
UpdateClientIDRow_KeepTry(row, clientID, updated) ==
    [row EXCEPT !.client_id = Text(clientID), !.handshake_err = NullString,
                !.handshake_updated = updated]

UpdateClientIDRow(row, clientID, updated) ==
    [row EXCEPT !.client_id = Text(clientID),
                !.handshake_err = NullString,
                !.handshake_try = 0,
                !.handshake_updated = updated]

UpdateHandshakeErrorRow(row, handshakeErr, updated) ==
    [row EXCEPT !.handshake_err = Text(handshakeErr),
                !.handshake_try = row.handshake_try + 1,
                !.handshake_updated = updated]

\* sqlMarkTakenHandshakeCandidates without the 'taken' sentinel.
MarkTakenHandshakeRow_NoSentinel(row, takenLast) ==
    [row EXCEPT !.handshake_updated = takenLast]

\* sqlMarkTakenHandshakeCandidates counting the claim as a try.
MarkTakenHandshakeRow_CountsTry(row, takenLast) ==
    [row EXCEPT !.handshake_updated = takenLast,
                !.handshake_err = Text(TakenTag),
                !.handshake_try = row.handshake_try + 1]

MarkTakenHandshakeRow(row, takenLast) ==
    [row EXCEPT !.handshake_updated = takenLast,
                !.handshake_err = Text(TakenTag)]

UpdateForkCompatibilityRow(row, isCompatFork, updated) ==
    [row EXCEPT !.compat_fork = BoolToSQL(isCompatFork),
                !.compat_fork_updated = updated]

\* strings.Join(keys, ","): the keys with a comma between neighbours, as
\* the sequence of its pieces.
RECURSIVE Join(_)
Join(keys) ==
    IF keys = <<>> THEN <<>>
    ELSE IF Len(keys) = 1 THEN <<keys[1]>>
    ELSE <<keys[1], ",">> \o Join(Tail(keys))

\* The bucket keys a caller may pass.
KeyLists == {<<"k1">>, <<"k1", "k2">>}

UpdateNeighborBucketKeysRow(row, keysStr) ==
    [row EXCEPT !.neighbor_keys = Text(keysStr)]

\* sqlMarkTakenNodes leaving taken_last as it was.
MarkTakenRow_NoMark(row, takenLast) == row

MarkTakenRow(row, takenLast) == [row EXCEPT !.taken_last = takenLast]

\* UPDATE nodes SET ... without its WHERE clause.
UpdateWhereIDIn_All(tbl, idSet, set) ==
    [i \in NodeIDs |-> IF tbl[i].exists THEN set[i] ELSE tbl[i]]

\* UPDATE nodes SET ... WHERE id IN (...): every row with one of the ids
\* becomes what the SET clause makes of it, set[i] for row i.
UpdateWhereIDIn(tbl, idSet, set) ==
    [i \in NodeIDs |-> IF i \in idSet /\ tbl[i].exists THEN set[i] ELSE tbl[i]]

\* UPDATE nodes SET ... WHERE id = ?: the row with that id, if there is one.
UpdateWhereID(tbl, id, set) == UpdateWhereIDIn(tbl, {id}, set)

\* The table after MarkTakenNodes(idSet) at clock t; no statement runs for
\* an empty list.
MarkTakenNodesTbl(tbl, idSet, t) ==
    IF idSet = {} THEN tbl
    ELSE UpdateWhereIDIn(tbl, idSet, [i \in NodeIDs |-> MarkTakenRow(tbl[i], Unix(t))])

\* The table after MarkTakenHandshakeCandidates(idSet) at clock t.
MarkTakenHandshakeCandidatesTbl(tbl, idSet, t) ==
    IF idSet = {} THEN tbl
    ELSE UpdateWhereIDIn(tbl, idSet, [i \in NodeIDs |-> MarkTakenHandshakeRow(tbl[i], Unix(t))])

\* ------------------------------------------------------- history updates
HistWhere(idSet, upd) ==
    [i \in NodeIDs |-> IF i \in idSet /\ nodes[i].exists THEN upd[i] ELSE hist[i]]

HistMark(idSet) ==
    HistWhere(idSet, [i \in NodeIDs |-> [hist[i] EXCEPT !.lastMark = now]])

\* A claim of the rows idSet; elig holds the rows that were candidates, for
\* the parameters of the claiming call, when the claim was written.
HistClaim(idSet, elig) ==
    HistWhere(idSet, [i \in NodeIDs |-> [hist[i] EXCEPT !.lastClaim = now, !.hsLast = "claim", !.claimEligible = i \in elig, !.okOver = NoOver]])

HistHandshake(id, what) ==
    HistWhere({id}, [i \in NodeIDs |-> [hist[i] EXCEPT !.hsLast = what, !.claimEligible = FALSE, !.hsErrs = IF what = "ok" THEN 0 ELSE hist[i].hsErrs + 1, !.okOver = IF what = "ok" THEN [taken |-> nodes[i].handshake_err = Text(TakenTag), over |-> nodes[i].handshake_try > MaxTry] ELSE NoOver]])

UNCHANGED_workers == UNCHANGED <<pc, call, ids, ret, wrote, overlap, sawBad>>

\* -------------------------------------------------------------- the clock
Tick(horizon) ==
    /\ now < Epoch + horizon
    /\ now' = now + 1
    /\ UNCHANGED <<nodes, hist>>
    /\ UNCHANGED_workers

\* ------------------------------------------- single-statement operations
UpsertNodeAddr(id, addr) ==
    /\ nodes' = [nodes EXCEPT ![id] = UpsertRow(nodes[id], UpsertArgs(addr),
                                                Unix(now))]
    /\ hist' = [hist EXCEPT ![id].lastAddr = addr]
    /\ UNCHANGED now
    /\ UNCHANGED_workers

ResetPingError(id) ==
    /\ nodes' = UpdateWhereID(nodes, id, [i \in NodeIDs |-> ResetPingErrorRow(nodes[i])])
    /\ hist' = HistWhere({id}, [i \in NodeIDs |->
                    [hist[i] EXCEPT !.resets = Min(hist[i].resets + 1, 2), !.errs = 0]])
    /\ UNCHANGED now
    /\ UNCHANGED_workers

UpdatePingError(id) ==
    /\ nodes[id].exists => nodes[id].ping_try <= MaxTry
    /\ nodes' = UpdateWhereID(nodes, id, [i \in NodeIDs |-> UpdatePingErrorRow(nodes[i])])
    /\ hist' = HistWhere({id}, [i \in NodeIDs |->
                    [hist[i] EXCEPT !.resets = 0, !.errs = hist[i].errs + 1]])
    /\ UNCHANGED now
    /\ UNCHANGED_workers

UpdateClientID(id, clientID) ==
    /\ nodes' = UpdateWhereID(nodes, id,
                    [i \in NodeIDs |-> UpdateClientIDRow(nodes[i], clientID, Unix(now))])
    /\ hist' = HistHandshake(id, "ok")
    /\ UNCHANGED now
    /\ UNCHANGED_workers

UpdateHandshakeError(id, handshakeErr) ==
    /\ nodes[id].exists => nodes[id].handshake_try <= MaxTry
    /\ nodes' = UpdateWhereID(nodes, id,
                    [i \in NodeIDs |-> UpdateHandshakeErrorRow(nodes[i], handshakeErr, Unix(now))])
    /\ hist' = HistHandshake(id, "error")
    /\ UNCHANGED now
    /\ UNCHANGED_workers

UpdateForkCompatibility(id, isCompatFork) ==
    /\ nodes' = UpdateWhereID(nodes, id,
                    [i \in NodeIDs |-> UpdateForkCompatibilityRow(nodes[i], isCompatFork, Unix(now))])
    /\ UNCHANGED <<now, hist>>
    /\ UNCHANGED_workers

UpdateNeighborBucketKeys(id, keys) ==
    /\ nodes' = UpdateWhereID(nodes, id,
                    [i \in NodeIDs |-> UpdateNeighborBucketKeysRow(nodes[i], Join(keys))])
    /\ UNCHANGED <<now, hist>>
    /\ UNCHANGED_workers

MarkTakenNodes(idSet) ==
    /\ nodes' = MarkTakenNodesTbl(nodes, idSet, now)
    /\ hist' = HistMark(idSet)
    /\ UNCHANGED now
    /\ UNCHANGED_workers

MarkTakenHandshakeCandidates(idSet) ==
    /\ nodes' = MarkTakenHandshakeCandidatesTbl(nodes, idSet, now)
    /\ hist' = HistClaim(idSet, {})
    /\ UNCHANGED now
    /\ UNCHANGED_workers

\* ------------------------------------------------------ the Take calls
\* TakeCandidates and TakeHandshakeCandidates run BeginTx, their Find, their
\* Mark and Commit as separate steps; workers interleave between them.  The
\* Find and the Mark go through db.db (the connection pool), not through
\* tx, so the transaction holds no statement: Commit and Rollback change
\* nothing in the table, and each statement commits by itself.
TxCommit(tbl) == tbl
TxRollback(tbl) == tbl

\* The parameters the workers pass to their Take calls.
TakeCandidateParams ==
    {p \in CandidateParams :
        /\ p.minUnusedDuration = MaxDuration
        /\ p.maxPingTries = MaxTry
        /\ p.maxHandshakeTries = MaxTry
        /\ p.transientHandshakeErr = "timeout"
        /\ p.limit \in {1, MaxLimit}}

TakeHandshakeParams ==
    {p \in HandshakeParams :
        /\ p.minUnusedOKDuration = MaxDuration
        /\ p.minUnusedErrDuration = MaxDuration - 1
        /\ p.maxHandshakeTries = MaxTry
        /\ p.transientErr = "timeout"
        /\ p.limit \in {1, MaxLimit}}

NoCall == [kind |-> "none"]

Return(w, result) ==
    /\ pc' = [pc EXCEPT ![w] = "done"]
    /\ ret' = [ret EXCEPT ![w] = result]

\* Node id was marked for crawl less than minUnusedDuration ago.
CoolingCrawl(id, p) ==
    /\ hist[id].lastMark # NULL
    /\ now < hist[id].lastMark + p.minUnusedDuration

\* Node id was claimed for handshake less than minUnusedErrDuration ago and
\* no outcome was written for it since.
CoolingHandshake(id, p) ==
    /\ hist[id].hsLast = "claim"
    /\ now < hist[id].lastClaim + p.minUnusedErrDuration

Cooling(id, kind, p) ==
    IF kind = "crawl" THEN CoolingCrawl(id, p) ELSE CoolingHandshake(id, p)

\* The workers whose call has begun and not returned.
InFlight == {v \in Workers : pc[v] \in {"begun", "found", "marked"}}

\* db.db.BeginTx: the call starts, or fails to start a transaction.
TakeBegin(w, kind, p, ok) ==
    /\ pc[w] \in {"idle", "done"}
    /\ call' = [call EXCEPT ![w] = [kind |-> kind, p |-> p]]
    /\ ids' = [ids EXCEPT ![w] = {}]
    /\ wrote' = [wrote EXCEPT ![w] = {}]
    /\ sawBad' = [sawBad EXCEPT ![w] = NoneBad]
    /\ overlap' = [v \in Workers |->
                     IF v = w THEN IF ok THEN InFlight \ {w} ELSE {}
                     ELSE IF ok /\ v \in InFlight THEN overlap[v] \cup {w}
                     ELSE overlap[v] \ {w}]
    /\ IF ok
       THEN pc' = [pc EXCEPT ![w] = "begun"] /\ ret' = [ret EXCEPT ![w] = "none"]
       ELSE Return(w, "error")
    /\ UNCHANGED <<nodes, now, hist>>

TakeCandidatesBegin(w, p, ok) == TakeBegin(w, "crawl", p, ok)

TakeHandshakeCandidatesBegin(w, p, ok) == TakeBegin(w, "handshake", p, ok)

\* The Find of the call: a query on the pool.
TakeFind(w, ok) ==
    /\ pc[w] = "begun"
    /\ IF ok
       THEN /\ \E S \in IF call[w].kind = "crawl"
                        THEN FindCandidates(nodes, now, call[w].p)
                        ELSE FindHandshakeCandidates(nodes, now, call[w].p) :
                    /\ ids' = [ids EXCEPT ![w] = S]
                    /\ sawBad' = [sawBad EXCEPT ![w] =
                            [incompatible |-> {i \in S : Incompatible(nodes[i])},
                             cooling |-> {i \in S : Cooling(i, call[w].kind, call[w].p)}]]
            /\ pc' = [pc EXCEPT ![w] = "found"]
            /\ nodes' = nodes
            /\ UNCHANGED ret
       ELSE /\ nodes' = TxRollback(nodes)
            /\ Return(w, "error")
            /\ UNCHANGED <<ids, sawBad>>
    /\ UNCHANGED <<now, call, wrote, overlap, hist>>

\* The Mark of the call: an UPDATE on the pool, skipped for an empty list.
TakeMark(w, ok) ==
    /\ pc[w] = "found"
    /\ IF ok \/ ids[w] = {}
       THEN /\ nodes' = IF call[w].kind = "crawl"
                        THEN MarkTakenNodesTbl(nodes, ids[w], now)
                        ELSE MarkTakenHandshakeCandidatesTbl(nodes, ids[w], now)
            /\ hist' = IF call[w].kind = "crawl"
                       THEN HistMark(ids[w])
                       ELSE HistClaim(ids[w], HandshakeEligible(nodes, now, call[w].p))
            /\ wrote' = [wrote EXCEPT
                            ![w] = {i \in NodeIDs : nodes'[i] # nodes[i]}]
            /\ pc' = [pc EXCEPT ![w] = "marked"]
            /\ UNCHANGED ret
       ELSE /\ nodes' = TxRollback(nodes)
            /\ Return(w, "error")
            /\ UNCHANGED <<hist, wrote>>
    /\ UNCHANGED <<now, call, ids, overlap, sawBad>>

\* tx.Commit: succeeds, or fails (the context was cancelled, the connection
\* broke); the call returns the ids or the error.
TakeCommit(w, ok) ==
    /\ pc[w] = "marked"
    /\ nodes' = TxCommit(nodes)
    /\ Return(w, IF ok THEN "ok" ELSE "error")
    /\ UNCHANGED <<now, call, ids, wrote, overlap, sawBad, hist>>

\* ------------------------------------------------------- specifications
Init ==
    /\ nodes = [i \in NodeIDs |-> NoRow]
    /\ now = Epoch
    /\ pc = [w \in Workers |-> "idle"]
    /\ call = [w \in Workers |-> NoCall]
    /\ ids = [w \in Workers |-> {}]
    /\ ret = [w \in Workers |-> "none"]
    /\ wrote = [w \in Workers |-> {}]
    /\ overlap = [w \in Workers |-> {}]
    /\ sawBad = [w \in Workers |-> NoneBad]
    /\ hist = [i \in NodeIDs |-> NoHist]

\* Each operation with its inputs drawn from the rows N or the workers W.
UpsertNodeAddrIn(N) ==
    \E id \in N, addr \in SchedAddrs : UpsertNodeAddr(id, addr)
ResetPingErrorIn(N) == \E id \in N : ResetPingError(id)
UpdatePingErrorIn(N) == \E id \in N : UpdatePingError(id)
UpdateClientIDIn(N) == \E id \in N, c \in ClientIDs : UpdateClientID(id, c)
UpdateHandshakeErrorIn(N) ==
    \E id \in N, e \in ErrTags : UpdateHandshakeError(id, e)
UpdateForkCompatibilityIn(N) ==
    \E id \in N, b \in BOOLEAN : UpdateForkCompatibility(id, b)
UpdateNeighborBucketKeysIn(N) ==
    \E id \in N, keys \in KeyLists : UpdateNeighborBucketKeys(id, keys)
MarkTakenNodesIn(N) == \E S \in SUBSET N : MarkTakenNodes(S)
MarkTakenHandshakeCandidatesIn(N) ==
    \E S \in SUBSET N : MarkTakenHandshakeCandidates(S)
TakeCandidatesBeginIn(W, P) ==
    \E w \in W, p \in P, ok \in BOOLEAN :
        TakeCandidatesBegin(w, p, ok)
TakeHandshakeCandidatesBeginIn(W, P) ==
    \E w \in W, p \in P, ok \in BOOLEAN :
        TakeHandshakeCandidatesBegin(w, p, ok)
TakeFindIn(W) == \E w \in W, ok \in BOOLEAN : TakeFind(w, ok)
TakeMarkIn(W) == \E w \in W, ok \in BOOLEAN : TakeMark(w, ok)
TakeCommitIn(W) == \E w \in W, ok \in BOOLEAN : TakeCommit(w, ok)

\* The whole system: every operation on every row by every worker.
Next ==
    \/ Tick(MaxTicks)
    \/ UpsertNodeAddrIn(NodeIDs)
    \/ ResetPingErrorIn(NodeIDs)
    \/ UpdatePingErrorIn(NodeIDs)
    \/ UpdateClientIDIn(NodeIDs)
    \/ UpdateHandshakeErrorIn(NodeIDs)
    \/ UpdateForkCompatibilityIn(NodeIDs)
    \/ MarkTakenNodesIn(NodeIDs)
    \/ MarkTakenHandshakeCandidatesIn(NodeIDs)
    \/ TakeCandidatesBeginIn(Workers, TakeCandidateParams)
    \/ TakeHandshakeCandidatesBeginIn(Workers, TakeHandshakeParams)
    \/ TakeFindIn(Workers)
    \/ TakeMarkIn(Workers)
    \/ TakeCommitIn(Workers)

Spec == Init /\ [][Next]_vars

\* The specifications below are Spec restricted to the operations, rows and
\* workers that the properties checked under them are about.
OneNode == {"n1"}
OneWorker == {"w1"}

\* Two workers taking crawl candidates among the discovered nodes.
NextCrawlTake ==
    \/ Tick(MaxTicks)
    \/ UpsertNodeAddrIn(NodeIDs)
    \/ TakeCandidatesBeginIn(Workers, TakeCandidateParams)
    \/ TakeFindIn(Workers)
    \/ TakeMarkIn(Workers)
    \/ TakeCommitIn(Workers)

SpecCrawlTake == Init /\ [][NextCrawlTake]_vars

\* Two workers taking handshake candidates among the discovered nodes.
NextHandshakeTake ==
    \/ Tick(MaxTicks)
    \/ UpsertNodeAddrIn(NodeIDs)
    \/ TakeHandshakeCandidatesBeginIn(Workers, TakeHandshakeParams)
    \/ TakeFindIn(Workers)
    \/ TakeMarkIn(Workers)
    \/ TakeCommitIn(Workers)

SpecHandshakeTake == Init /\ [][NextHandshakeTake]_vars

\* One worker making Take calls of both kinds, any step of which may fail.
NextTake ==
    \/ Tick(MaxTicks)
    \/ UpsertNodeAddrIn(NodeIDs)
    \/ TakeCandidatesBeginIn(OneWorker, TakeCandidateParams)
    \/ TakeHandshakeCandidatesBeginIn(OneWorker, TakeHandshakeParams)
    \/ TakeFindIn(OneWorker)
    \/ TakeMarkIn(OneWorker)
    \/ TakeCommitIn(OneWorker)

SpecTake == Init /\ [][NextTake]_vars

\* Fork checks and handshake results on one node, and one worker taking it
\* at either stage.
OneCandidateParams == {p \in TakeCandidateParams : p.limit = 1}
OneHandshakeParams == {p \in TakeHandshakeParams : p.limit = 1}

\* A worker that retries a success at once and waits longest after a claim.
EagerHandshakeParams ==
    {p \in HandshakeParams :
        /\ p.minUnusedOKDuration = 0
        /\ p.minUnusedErrDuration = MaxDuration
        /\ p.maxHandshakeTries = MaxTry
        /\ p.transientErr = "timeout"
        /\ p.limit = 1}

NextFork ==
    \/ Tick(MaxTicks)
    \/ UpsertNodeAddrIn(OneNode)
    \/ UpdateForkCompatibilityIn(OneNode)
    \/ UpdateHandshakeErrorIn(OneNode)
    \/ UpdateClientIDIn(OneNode)
    \/ TakeCandidatesBeginIn(OneWorker, OneCandidateParams)
    \/ TakeHandshakeCandidatesBeginIn(OneWorker, OneHandshakeParams)
    \/ TakeFindIn(OneWorker)
    \/ TakeMarkIn(OneWorker)
    \/ TakeCommitIn(OneWorker)

SpecFork == Init /\ [][NextFork]_vars

\* Crawl marks on one node among the other writes to its row, and one
\* worker taking it for crawl.
NextCooldown ==
    \/ Tick(MaxTicks)
    \/ UpsertNodeAddrIn(OneNode)
    \/ UpdateForkCompatibilityIn(OneNode)
    \/ UpdatePingErrorIn(OneNode)
    \/ UpdateHandshakeErrorIn(OneNode)
    \/ MarkTakenNodesIn(OneNode)
    \/ TakeCandidatesBeginIn(OneWorker, OneCandidateParams)
    \/ TakeFindIn(OneWorker)
    \/ TakeMarkIn(OneWorker)
    \/ TakeCommitIn(OneWorker)

SpecCooldown == Init /\ [][NextCooldown]_vars

\* Handshake claims and outcomes on one node, and one worker taking it for
\* handshake.
NextClaim ==
    \/ Tick(MaxTicks)
    \/ UpsertNodeAddrIn(OneNode)
    \/ UpdateForkCompatibilityIn(OneNode)
    \/ UpdateHandshakeErrorIn(OneNode)
    \/ UpdateClientIDIn(OneNode)
    \/ MarkTakenHandshakeCandidatesIn(OneNode)
    \/ TakeHandshakeCandidatesBeginIn(OneWorker, OneHandshakeParams \cup EagerHandshakeParams)
    \/ TakeFindIn(OneWorker)
    \/ TakeMarkIn(OneWorker)
    \/ TakeCommitIn(OneWorker)

SpecClaim == Init /\ [][NextClaim]_vars

\* A node that fails its handshakes and is claimed by a worker that never
\* reports, over a time long enough for the claim to expire.
NextClaimExpiry ==
    \/ Tick(2 * MaxTicks)
    \/ UpsertNodeAddrIn(OneNode)
    \/ UpdateHandshakeErrorIn(OneNode)
    \/ TakeHandshakeCandidatesBeginIn(OneWorker, OneHandshakeParams)
    \/ TakeFindIn(OneWorker)
    \/ TakeMarkIn(OneWorker)
    \/ TakeCommitIn(OneWorker)

SpecClaimExpiry == Init /\ [][NextClaimExpiry]_vars

\* Two nodes competing for the handshake candidates' limit.
NextHandshake ==
    \/ Tick(MaxTicks)
    \/ UpsertNodeAddrIn(NodeIDs)
    \/ UpdateForkCompatibilityIn(OneNode)
    \/ UpdateHandshakeErrorIn(NodeIDs)
    \/ UpdateClientIDIn(OneNode)
    \/ MarkTakenHandshakeCandidatesIn(NodeIDs)

SpecHandshake == Init /\ [][NextHandshake]_vars

\* Ping results on the discovered nodes.
NextPing ==
    \/ Tick(MaxTicks)
    \/ UpsertNodeAddrIn(NodeIDs)
    \/ ResetPingErrorIn(NodeIDs)
    \/ UpdatePingErrorIn(NodeIDs)

SpecPing == Init /\ [][NextPing]_vars

\* Two nodes claimed for handshake at different times, one of them marked
\* for crawl, over two whole seconds, so that two claims in different
\* seconds are both past.
NextOrder ==
    \/ Tick(2 * TicksPerSec)
    \/ UpsertNodeAddrIn(NodeIDs)
    \/ MarkTakenNodesIn(OneNode)
    \/ MarkTakenHandshakeCandidatesIn(NodeIDs)

SpecOrder == Init /\ [][NextOrder]_vars

\* Every write to the counters of one node, marks and claims among them.
NextCounters ==
    \/ Tick(MaxTicks)
    \/ UpsertNodeAddrIn(OneNode)
    \/ ResetPingErrorIn(OneNode)
    \/ UpdatePingErrorIn(OneNode)
    \/ UpdateClientIDIn(OneNode)
    \/ UpdateHandshakeErrorIn(OneNode)
    \/ MarkTakenNodesIn(OneNode)
    \/ MarkTakenHandshakeCandidatesIn(OneNode)

SpecCounters == Init /\ [][NextCounters]_vars

\* Two nodes, one of them with handshake errors, and one worker making
\* Take calls of both kinds for as many ids as there are, within a second
\* and into the next.
NextMark ==
    \/ Tick(TicksPerSec)
    \/ UpsertNodeAddrIn(NodeIDs)
    \/ UpdateHandshakeErrorIn(OneNode)
    \/ TakeCandidatesBeginIn(OneWorker, TakeCandidateParams \ OneCandidateParams)
    \/ TakeHandshakeCandidatesBeginIn(OneWorker, TakeHandshakeParams \ OneHandshakeParams)
    \/ TakeFindIn(OneWorker)
    \/ TakeMarkIn(OneWorker)
    \/ TakeCommitIn(OneWorker)

SpecMark == Init /\ [][NextMark]_vars

\* Ping errors of one node written while two workers take it for crawl.
NextPingTake ==
    \/ Tick(MaxTicks)
    \/ UpsertNodeAddrIn(OneNode)
    \/ UpdatePingErrorIn(OneNode)
    \/ TakeCandidatesBeginIn(Workers, OneCandidateParams)
    \/ TakeFindIn(Workers)
    \/ TakeMarkIn(Workers)
    \/ TakeCommitIn(Workers)

SpecPingTake == Init /\ [][NextPingTake]_vars

\* A worker of one stage: it keeps calling TakeCandidates, or it keeps
\* calling TakeHandshakeCandidates, with fixed parameters and a limit of 1,
\* its calls succeeding, every handshake claim followed by its outcome,
\* while time advances by two whole seconds to StarveHorizon.
StageWorker == "w1"
StarveTicks == 2 * TicksPerSec
StarveHorizon == Epoch + StarveTicks

\* The discovery stage upserts a node it has not seen yet.
DiscoverIn(N) ==
    \E id \in N, addr \in SchedAddrs :
        ~nodes[id].exists /\ UpsertNodeAddr(id, addr)

TakeCandidatesRun(w) ==
    \/ /\ call[w].kind \in {"none", "crawl"}
       /\ \E p \in OneCandidateParams : TakeCandidatesBegin(w, p, TRUE)
    \/ call[w].kind = "crawl" /\ TakeFind(w, TRUE)
    \/ call[w].kind = "crawl" /\ TakeMark(w, TRUE)
    \/ call[w].kind = "crawl" /\ TakeCommit(w, TRUE)

TakeHandshakeCandidatesRun(w) ==
    \/ /\ call[w].kind \in {"none", "handshake"}
       /\ \E p \in OneHandshakeParams : TakeHandshakeCandidatesBegin(w, p, TRUE)
    \/ call[w].kind = "handshake" /\ TakeFind(w, TRUE)
    \/ call[w].kind = "handshake" /\ TakeMark(w, TRUE)
    \/ call[w].kind = "handshake" /\ TakeCommit(w, TRUE)

\* The worker that claimed node id reports the outcome of its handshake.
ReportOutcome(id) ==
    /\ nodes[id].exists
    /\ nodes[id].handshake_err = Text(TakenTag)
    /\ \/ \E c \in ClientIDs : UpdateClientID(id, c)
       \/ UpdateHandshakeError(id, "timeout")

ReportOutcomeIn(N) == \E id \in N : ReportOutcome(id)

NextStarve ==
    \/ Tick(StarveTicks)
    \/ DiscoverIn(NodeIDs)
    \/ TakeCandidatesRun(StageWorker)
    \/ TakeHandshakeCandidatesRun(StageWorker)
    \/ ReportOutcomeIn(NodeIDs)

SpecStarve ==
    /\ Init /\ [][NextStarve]_vars
    /\ WF_vars(Tick(StarveTicks))
    /\ WF_vars(TakeCandidatesRun(StageWorker))
    /\ WF_vars(TakeHandshakeCandidatesRun(StageWorker))
    /\ WF_vars(ReportOutcomeIn(NodeIDs))

\* Every single-statement operation called with the id of node n1, which
\* the discovery stage upserts and re-discovers at another address, and
\* with the id of node n2, which has no record.
MovedAddrs == SchedAddrs \cup {NodeAddr(IPv4(1), 30303, 0, IPv6(2), 30303, 30303)}

NextLifecycle ==
    \/ Tick(TicksPerSec)
    \/ \E addr \in MovedAddrs : UpsertNodeAddr("n1", addr)
    \/ ResetPingErrorIn(NodeIDs)
    \/ UpdatePingErrorIn(NodeIDs)
    \/ UpdateClientIDIn(NodeIDs)
    \/ UpdateHandshakeErrorIn(NodeIDs)
    \/ UpdateForkCompatibilityIn(NodeIDs)
    \/ UpdateNeighborBucketKeysIn(NodeIDs)
    \/ MarkTakenNodesIn(NodeIDs)
    \/ MarkTakenHandshakeCandidatesIn(NodeIDs)

SpecLifecycle == Init /\ [][NextLifecycle]_vars

\* Addresses of every shape written to one node.
NextAddress ==
    \/ Tick(MaxTicks)
    \/ \E addr \in Addrs : UpsertNodeAddr("n1", addr)

SpecAddress == Init /\ [][NextAddress]_vars

\* ------------------------------------------------------------ readers
\* uint(n) of an int32 n.
Uint(n) == IF n >= 0 THEN n ELSE 2^64 + n

\* uint16(n) of an int32 n.
Uint16(n) == n % (2^16)

\* FindNodeAddr(id): nil without a row, an error when a stored IP text does
\* not parse, else the NodeAddr built from the six columns, a NULL column
\* leaving its field at the zero value.
FindNodeAddr(tbl, id) ==
    LET row == tbl[id]
        ip == IF row.ip # NullString THEN ParseIP(row.ip[1]) ELSE NilIP
        ipV6 == IF row.ip_v6 # NullString THEN ParseIP(row.ip_v6[1]) ELSE NilIP
        port(col) == IF col # NULL THEN Uint16(col) ELSE 0
    IN  IF ~row.exists THEN [status |-> "nil"]
        ELSE IF \/ row.ip # NullString /\ ip.isNil
                \/ row.ip_v6 # NullString /\ ipV6.isNil
        THEN [status |-> "error"]
        ELSE [status |-> "ok",
              addr |-> NodeAddr(ip, port(row.port_disc), port(row.port_rlpx),
                                ipV6, port(row.ip_v6_port_disc),
                                port(row.ip_v6_port_rlpx))]

\* FindHandshakeLastTry(id): nil without a row or before any handshake
\* write, else the HandshakeTry built from the three columns (an error is
\* there when handshake_err is not NULL).
NoTry == [found |-> FALSE]
FindHandshakeLastTry(tbl, id) ==
    IF ~tbl[id].exists \/ tbl[id].handshake_updated = NULL THEN NoTry
    ELSE [found |-> TRUE,
          hasError |-> tbl[id].handshake_err # NullString,
          tryCount |-> Uint(tbl[id].handshake_try),
          time |-> tbl[id].handshake_updated]

\* ------------------------------------------------------ ping counter
\* CountPingErrors(id): the row's ping_try, or NULL (absent) without a row.
CountPingErrors(tbl, id) == IF tbl[id].exists THEN tbl[id].ping_try ELSE NULL

\* --------------------------------------------------------- properties
\* Two finished calls of one kind with the same parameters that ran
\* concurrently, less than the cooldown (parameter `dur`) after the
\* start of the run (so the cooldown has not elapsed between them).
ConcurrentTakes(w1, w2, kind, dur) ==
    /\ w1 # w2
    /\ pc[w1] = "done" /\ ret[w1] = "ok"
    /\ pc[w2] = "done" /\ ret[w2] = "ok"
    /\ call[w1].kind = kind
    /\ call[w2] = call[w1]
    /\ w2 \in overlap[w1]
    /\ now - Epoch < call[w1].p[dur]

\* C1: two concurrent TakeCandidates calls with the same parameters, the
\* cooldown minUnusedDuration not elapsed between them, return no node id
\* in common.
C1_TakeCandidatesDisjoint ==
    \A w1, w2 \in Workers :
        ConcurrentTakes(w1, w2, "crawl", "minUnusedDuration")
            => ids[w1] \cap ids[w2] = {}

\* C2: two concurrent TakeHandshakeCandidates calls with the same
\* parameters, the cooldown minUnusedErrDuration not elapsed between them,
\* return no node id in common.
C2_TakeHandshakeCandidatesDisjoint ==
    \A w1, w2 \in Workers :
        ConcurrentTakes(w1, w2, "handshake", "minUnusedErrDuration")
            => ids[w1] \cap ids[w2] = {}

\* C3: a Take call that returned an error changed no row, and a Take call
\* that returned ids marked exactly the rows of those ids.
C3_TakeAllOrNothing ==
    \A w \in Workers :
        pc[w] = "done" =>
            /\ ret[w] = "error" => wrote[w] = {}
            /\ ret[w] = "ok" => wrote[w] = ids[w]

\* The results of the two Find queries in the current state hold no
\* incompatible node, whatever the parameters.
C4_FindExcludesIncompatible ==
    \A id \in NodeIDs :
        Incompatible(nodes[id]) =>
            /\ \A p \in CandidateParams :
                    \A S \in FindCandidates(nodes, now, p) : id \notin S
            /\ \A p \in HandshakeParams :
                    \A S \in FindHandshakeCandidates(nodes, now, p) : id \notin S

\* C4: a node whose fork_compat is incompatible is in no result of
\* FindCandidates or FindHandshakeCandidates, whatever the parameters and
\* the node's other columns, and no Find of a Take call returned one.
C4_IncompatibleNeverCandidate ==
    /\ C4_FindExcludesIncompatible
    /\ \A w \in Workers : sawBad[w].incompatible = {}

\* An incompatible node that passes every other condition of both queries
\* while a Take call has run its Find and found nothing.
C4_Witness ==
    \E id \in NodeIDs, w \in Workers :
        /\ Incompatible(nodes[id])
        /\ nodes[id].taken_last = NULL
        /\ nodes[id].handshake_updated = NULL
        /\ nodes[id].ping_try = 0
        /\ pc[w] = "found" /\ ids[w] = {}

\* C5: a node marked for crawl at clock t is in no result of FindCandidates
\* with cooldown minUnusedDuration at any clock before t + minUnusedDuration,
\* whatever was written to its row since, and no Find of a TakeCandidates
\* call returned such a node.
C5_CrawlCooldown ==
    /\ \A id \in NodeIDs : \A p \in CandidateParams :
            CoolingCrawl(id, p) =>
                \A S \in FindCandidates(nodes, now, p) : id \notin S
    /\ \A w \in Workers : call[w].kind = "crawl" => sawBad[w].cooling = {}

\* A marked node that passes every other condition of the query, inside
\* its cooldown, while a TakeCandidates call has run its Find and found
\* nothing.
C5_Witness ==
    \E id \in NodeIDs, w \in Workers :
        /\ pc[w] = "found" /\ call[w].kind = "crawl" /\ ids[w] = {}
        /\ CoolingCrawl(id, call[w].p)
        /\ id \in CandidateEligible([nodes EXCEPT ![id].taken_last = NULL], now, call[w].p)

\* C6: a node claimed for handshake at clock t, with no outcome written
\* since, is in no result of FindHandshakeCandidates with cooldown
\* minUnusedErrDuration at any clock before t + minUnusedErrDuration, also
\* when its last handshake before the claim had succeeded; and no Find of a
\* TakeHandshakeCandidates call returned such a node.
C6_HandshakeClaimCooldown ==
    /\ \A id \in NodeIDs : \A p \in HandshakeParams :
            CoolingHandshake(id, p) =>
                \A S \in FindHandshakeCandidates(nodes, now, p) : id \notin S
    /\ \A w \in Workers : call[w].kind = "handshake" => sawBad[w].cooling = {}

\* A node whose handshake had succeeded, then claimed, inside the claim's
\* cooldown though past the quiet period of a success, while a
\* TakeHandshakeCandidates call has run its Find and found nothing.
C6_Witness ==
    \E id \in NodeIDs, w \in Workers :
        /\ pc[w] = "found" /\ call[w].kind = "handshake" /\ ids[w] = {}
        /\ nodes[id].client_id # NullString
        /\ nodes[id].handshake_try = 0
        /\ ~Incompatible(nodes[id])
        /\ CoolingHandshake(id, call[w].p)
        /\ SqlLt(nodes[id].handshake_updated, Unix(now - call[w].p.minUnusedOKDuration))

\* C7: a node returned by a TakeHandshakeCandidates call whose worker
\* never reports an outcome is eligible again, with the parameters of that
\* call and its fork compatibility unchanged, once minUnusedErrDuration
\* (and the one second the whole-second timestamps may add) has elapsed
\* since the claim.
C7_HandshakeClaimExpires ==
    \A w \in Workers : \A id \in NodeIDs :
        /\ call[w].kind = "handshake"
        /\ pc[w] \in {"marked", "done"}
        /\ id \in wrote[w]
        /\ hist[id].hsLast = "claim"
        /\ hist[id].claimEligible
        /\ ~Incompatible(nodes[id])
        /\ now >= hist[id].lastClaim + call[w].p.minUnusedErrDuration + TicksPerSec
        => id \in HandshakeEligible(nodes, now, call[w].p)

\* C8: a node that is not fork-incompatible, whose last handshake write was
\* UpdateHandshakeError with tag E, whose error quiet period has elapsed
\* and whose handshake_try exceeds maxHandshakeTries is in the result of
\* FindHandshakeCandidates with a non-binding limit if and only if E is
\* the transient tag.
C8_TransientBypass ==
    \A id \in NodeIDs : \A p \in HandshakeParams :
        /\ nodes[id].exists
        /\ ~Incompatible(nodes[id])
        /\ hist[id].hsLast = "error"
        /\ nodes[id].handshake_updated < Unix(now - p.minUnusedErrDuration)
        /\ nodes[id].handshake_try > p.maxHandshakeTries
        /\ p.limit >= Cardinality(Rows(nodes))
        => \A S \in FindHandshakeCandidates(nodes, now, p) :
                id \in S <=> nodes[id].handshake_err = Text(p.transientErr)

\* A node past its quiet period that failed with "timeout" more often than
\* every cap.
C8_Witness ==
    \E id \in NodeIDs :
        /\ nodes[id].exists
        /\ ~Incompatible(nodes[id])
        /\ hist[id].hsLast = "error"
        /\ nodes[id].handshake_err = Text("timeout")
        /\ nodes[id].handshake_try = MaxTry + 1
        /\ nodes[id].handshake_updated < Unix(now)

\* The rows whose handshake was never attempted nor claimed.
NeverAttempted == {id \in Rows(nodes) : nodes[id].handshake_updated = NULL}

\* C9: a row never attempted and not fork-incompatible is in every result
\* of FindHandshakeCandidates, whatever the durations, the cap (0 too) and
\* the transient tag, when limit is at least the number of never-attempted
\* rows.
C9_NeverAttemptedFound ==
    \A id \in NeverAttempted : \A p \in HandshakeParams :
        ~Incompatible(nodes[id]) /\ p.limit >= Cardinality(NeverAttempted)
        => \A S \in FindHandshakeCandidates(nodes, now, p) : id \in S

\* A never-attempted row next to an attempted row that is a candidate too
\* for some parameters.
C9_Witness ==
    \E id \in NeverAttempted : \E other \in Rows(nodes) \ NeverAttempted :
        /\ ~Incompatible(nodes[id])
        /\ \E p \in HandshakeParams :
                p.limit = 1 /\ other \in HandshakeEligible(nodes, now, p)

\* C10: after one or more ResetPingError calls in a row CountPingErrors is
\* 0, and after N UpdatePingError calls from a counter of 0 it is N.
C10_PingCounter ==
    \A id \in Rows(nodes) :
        /\ hist[id].resets >= 1 => CountPingErrors(nodes, id) = 0
        /\ CountPingErrors(nodes, id) = hist[id].errs

\* One row reset twice in a row, another with the most UpdatePingError
\* calls the bound allows.
C10_Witness ==
    \E id, other \in Rows(nodes) :
        /\ hist[id].resets = 2
        /\ hist[other].errs = MaxTry + 1

\* C11: while UpdateClientID is the last write to a row's handshake columns,
\* FindHandshakeLastTry reports no error and a try count of 0, whatever the
\* columns held before.
C11_SuccessResetsBackoff ==
    \A id \in NodeIDs :
        nodes[id].exists /\ hist[id].hsLast = "ok" =>
            LET try == FindHandshakeLastTry(nodes, id)
            IN  try.found /\ ~try.hasError /\ try.tryCount = 0

\* A success written over the 'taken' sentinel and a try count above every
\* cap.
C11_Witness ==
    \E id \in NodeIDs :
        /\ nodes[id].exists /\ hist[id].hsLast = "ok"
        /\ hist[id].okOver.taken /\ hist[id].okOver.over

\* The two stacks of a NodeAddr.
Stack4(a) == [IP |-> a.IP, PortDisc |-> a.PortDisc, PortRLPx |-> a.PortRLPx]
Stack6(a) == a.IPv6

\* Stack `got` is what the round trip makes of stack `put`: the IP present
\* or absent as put, equal when present, the ports as put with an IP and 0
\* without.
StackRoundTrip(put, got) ==
    /\ got.IP.isNil <=> put.IP.isNil
    /\ ~put.IP.isNil =>
            /\ IPEqual(got.IP, put.IP)
            /\ got.PortDisc = put.PortDisc /\ got.PortRLPx = put.PortRLPx
    /\ put.IP.isNil => got.PortDisc = 0 /\ got.PortRLPx = 0

\* C12: FindNodeAddr returns, for each stack, what the last UpsertNodeAddr
\* of the node was given, ports without an IP turned to 0; and no stored
\* row has a port without the IP of its stack.
C12_AddressRoundTrip ==
    \A id \in Rows(nodes) :
        LET got == FindNodeAddr(nodes, id)
            put == hist[id].lastAddr
        IN  /\ got.status = "ok"
            /\ StackRoundTrip(Stack4(put), Stack4(got.addr))
            /\ StackRoundTrip(Stack6(put), Stack6(got.addr))
            /\ nodes[id].ip = NullString =>
                    nodes[id].port_disc = NULL /\ nodes[id].port_rlpx = NULL
            /\ nodes[id].ip_v6 = NullString =>
                    /\ nodes[id].ip_v6_port_disc = NULL
                    /\ nodes[id].ip_v6_port_rlpx = NULL

\* A node upserted with a 4-byte IPv4 address, one port 0 and one not, and
\* with ports but no IP on the IPv6 stack.
C12_Witness ==
    \E id \in Rows(nodes) :
        /\ hist[id].lastAddr.IP = IPv4(1)
        /\ hist[id].lastAddr.PortDisc = 0
        /\ hist[id].lastAddr.PortRLPx = 65535
        /\ hist[id].lastAddr.IPv6.IP = NilIP
        /\ hist[id].lastAddr.IPv6.PortDisc = 30303

\* The four conditions of crawl eligibility on a row at clock t, the
\* timestamps in whole seconds.
CrawlConjunction(row, t, p) ==
    /\ row.taken_last = NULL \/ row.taken_last < Unix(t - p.minUnusedDuration)
    /\ ~Incompatible(row)
    /\ row.ping_try <= p.maxPingTries
    /\ \/ row.handshake_try <= p.maxHandshakeTries
       \/ row.handshake_err = Text(p.transientHandshakeErr)

\* C13: with a limit that does not bind, FindCandidates has one result,
\* and a row is in it if and only if it passes the four conditions; a row
\* with ping_try = 0 passes the ping condition and a row with ping_try
\* above maxPingTries is not returned.
C13_CrawlEligibility ==
    \A p \in CandidateParams :
        p.limit >= Cardinality(Rows(nodes)) =>
            /\ FindCandidates(nodes, now, p) # {}
            /\ \A S \in FindCandidates(nodes, now, p) : \A id \in Rows(nodes) :
                    /\ id \in S <=> CrawlConjunction(nodes[id], now, p)
                    /\ nodes[id].ping_try > p.maxPingTries => id \notin S

\* A row marked long enough ago for some cooldowns only, pinged and failed
\* once, with more handshake errors than every cap, the last a "timeout".
C13_Witness ==
    \E id \in Rows(nodes) :
        /\ nodes[id].taken_last # NULL
        /\ nodes[id].taken_last < Unix(now)
        /\ ~(nodes[id].taken_last < Unix(now - MaxDuration))
        /\ nodes[id].ping_try = 1
        /\ nodes[id].compat_fork = SQLTrue
        /\ nodes[id].handshake_try = MaxTry + 1
        /\ nodes[id].handshake_err = Text("timeout")

\* S is at most limit rows of elig, and no row of elig left out of S has
\* an absent key next to a returned row with a key, or an older key than a
\* returned row.
StalenessPrefix(S, elig, key, limit) ==
    /\ S \subseteq elig
    /\ Cardinality(S) <= limit
    /\ \A x \in S : \A y \in elig \ S :
            /\ ~(key[y] = NULL /\ key[x] # NULL)
            /\ ~(key[y] # NULL /\ key[x] # NULL /\ key[y] < key[x])

\* C14: every result of FindHandshakeCandidates and of FindCandidates has
\* at most limit ids and is a staleness-prefix of the eligible rows by
\* handshake_updated, resp. taken_last, rows without the timestamp first.
C14_OrderingAndCap ==
    /\ \A p \in HandshakeParams : \A S \in FindHandshakeCandidates(nodes, now, p) :
            StalenessPrefix(S, HandshakeEligible(nodes, now, p),
                            [id \in NodeIDs |-> nodes[id].handshake_updated], p.limit)
    /\ \A p \in CandidateParams : \A S \in FindCandidates(nodes, now, p) :
            StalenessPrefix(S, CandidateEligible(nodes, now, p),
                            [id \in NodeIDs |-> nodes[id].taken_last], p.limit)

\* Two rows past their handshake claims, one claimed before the other, one
\* of them never marked for crawl and the other past its mark: a limit of 1
\* has to choose in both queries.
C14_Witness ==
    \E x, y \in Rows(nodes) :
        /\ nodes[x].handshake_updated # NULL
        /\ nodes[y].handshake_updated # NULL
        /\ nodes[x].handshake_updated < nodes[y].handshake_updated
        /\ nodes[y].handshake_updated < Unix(now)
        /\ nodes[x].taken_last # NULL
        /\ nodes[x].taken_last < Unix(now)
        /\ nodes[y].taken_last = NULL

\* The counters of row id in a step: not negative; unchanged, 0 or one
\* more; raised by UpdatePingError, resp. UpdateHandshakeError, only and
\* zeroed by ResetPingError, resp. UpdateClientID, only.
CounterStep(id) ==
    LET a == nodes[id]
        b == nodes'[id]
    IN  /\ b.exists => b.ping_try >= 0 /\ b.handshake_try >= 0
        /\ a.exists /\ b.exists =>
            /\ b.ping_try \in {a.ping_try, 0, a.ping_try + 1}
            /\ b.handshake_try \in {a.handshake_try, 0, a.handshake_try + 1}
            /\ b.ping_try > a.ping_try => UpdatePingError(id)
            /\ b.ping_try = 0 /\ a.ping_try # 0 => ResetPingError(id)
            /\ b.handshake_try > a.handshake_try =>
                    \E e \in ErrTags : UpdateHandshakeError(id, e)
            /\ b.handshake_try = 0 /\ a.handshake_try # 0 =>
                    \E c \in ClientIDs : UpdateClientID(id, c)

\* With k UpdateHandshakeError calls since the last success (or since the
\* row was created), FindHandshakeLastTry reports k tries, and an error
\* when k > 0.
TriesCounted(id) ==
    LET try == FindHandshakeLastTry(nodes, id)
    IN  try.found =>
            /\ try.tryCount = hist[id].hsErrs
            /\ hist[id].hsErrs > 0 => try.hasError

\* C15: in every step the counters of every row obey CounterStep, and in
\* every state FindHandshakeLastTry counts the errors since the last
\* success.
C15_CounterSteps ==
    /\ [](\A id \in Rows(nodes) : TriesCounted(id))
    /\ [][\A id \in NodeIDs : CounterStep(id)]_vars

\* A row that succeeded, then failed MaxTry + 1 handshakes and was claimed,
\* with MaxTry + 1 ping errors.
C15_Witness ==
    \E id \in Rows(nodes) :
        /\ nodes[id].client_id # NullString
        /\ hist[id].hsErrs = MaxTry + 1
        /\ hist[id].hsLast = "claim"
        /\ nodes[id].ping_try = MaxTry + 1

\* Table `after` is table `before` with the rows of idSet replaced by
\* set[i] and every other row, and every absent row, as it was.
FrameOf(before, after, idSet, set) ==
    \A i \in NodeIDs :
        after[i] = IF i \in idSet /\ before[i].exists THEN set[i] ELSE before[i]

\* In the current state, MarkTakenNodes of any ids would write taken_last
\* of the rows of those ids and nothing else, and
\* MarkTakenHandshakeCandidates would write handshake_updated and
\* handshake_err of those rows and nothing else; for no ids both leave the
\* table as it is.
MarkFrame ==
    \A S \in SUBSET NodeIDs :
        /\ FrameOf(nodes, MarkTakenNodesTbl(nodes, S, now), S,
                   [i \in NodeIDs |-> [nodes[i] EXCEPT !.taken_last = Unix(now)]])
        /\ FrameOf(nodes, MarkTakenHandshakeCandidatesTbl(nodes, S, now), S,
                   [i \in NodeIDs |-> [nodes[i] EXCEPT !.handshake_updated = Unix(now),
                                                       !.handshake_err = Text("taken")]])
        /\ S = {} => /\ MarkTakenNodesTbl(nodes, S, now) = nodes
                     /\ MarkTakenHandshakeCandidatesTbl(nodes, S, now) = nodes

\* The Mark step of a Take call writes by the same frame, and with no ids
\* found it is not where the call fails.
TakeMarkFrame(w) ==
    pc[w] = "found" /\ pc'[w] # "found" =>
        /\ ids[w] = {} => pc'[w] = "marked" /\ nodes' = nodes
        /\ pc'[w] = "marked" =>
                nodes' = IF call[w].kind = "crawl"
                         THEN MarkTakenNodesTbl(nodes, ids[w], now)
                         ELSE MarkTakenHandshakeCandidatesTbl(nodes, ids[w], now)
        /\ pc'[w] = "done" => nodes' = nodes

\* C16: MarkTakenNodes(ids) writes taken_last of exactly the rows of ids,
\* MarkTakenHandshakeCandidates(ids) writes handshake_updated and
\* handshake_err of exactly the rows of ids (handshake_try stays), no other
\* column or row changes, and with no ids both change nothing and do not
\* fail; the Mark step of the Take calls included.
C16_MarkFrame ==
    /\ []MarkFrame
    /\ [][\A w \in Workers : TakeMarkFrame(w)]_vars

\* A claimed and marked row that keeps its handshake tries, next to a row
\* nothing was written to, after a Take call that found no ids.
C16_Witness ==
    \E x, y \in Rows(nodes) : \E w \in Workers :
        /\ nodes[x].taken_last # NULL
        /\ nodes[x].handshake_err = Text("taken")
        /\ nodes[x].handshake_try > 0
        /\ nodes[y].taken_last = NULL
        /\ nodes[y].handshake_updated = NULL
        /\ pc[w] = "marked" /\ ids[w] = {}

\* C17: with UpdatePingError calls for one id interleaved in any order with
\* each other and with the steps of Take calls in flight, ping_try is the
\* number of calls made since it was 0: no call's increment is lost.
C17_NoLostPingUpdates ==
    \A id \in Rows(nodes) :
        nodes[id].ping_try = hist[id].errs

\* MaxTry + 1 UpdatePingError calls counted while both workers are inside
\* a Take call, one of them holding the node between its Find and its
\* Mark.
C17_Witness ==
    \E id \in Rows(nodes) :
        /\ hist[id].errs = MaxTry + 1
        /\ InFlight = Workers
        /\ \E w \in Workers : pc[w] = "found" /\ id \in ids[w]

\* C18: at the current clock, for any ids and any parameters (the transient
\* tag one a worker reports), MarkTakenNodes leaves the results of
\* FindHandshakeCandidates as they are and MarkTakenHandshakeCandidates
\* leaves the results of FindCandidates as they are.
C18_StagesIndependent ==
    \A S \in SUBSET NodeIDs :
        /\ \A p \in HandshakeParams :
                p.transientErr \in ErrTags =>
                    FindHandshakeCandidates(MarkTakenNodesTbl(nodes, S, now), now, p)
                        = FindHandshakeCandidates(nodes, now, p)
        /\ \A p \in CandidateParams :
                p.transientHandshakeErr \in ErrTags =>
                    FindCandidates(MarkTakenHandshakeCandidatesTbl(nodes, S, now), now, p)
                        = FindCandidates(nodes, now, p)

\* The last call of worker w returned node id.
ReturnedBy(w, id) == pc[w] = "done" /\ ret[w] = "ok" /\ id \in ids[w]

\* The times a node can have been marked or claimed last.
MarkTimes == {NULL} \cup (Epoch .. StarveHorizon)

\* Node id meets the conditions of the crawl stage whose worker is calling,
\* its cooldown over at StarveHorizon at the latest.
DueCrawl(id) ==
    /\ call[StageWorker].kind = "crawl"
    /\ id \in CandidateEligible(nodes, StarveHorizon, call[StageWorker].p)

\* Node id, no claim on it outstanding, meets the conditions of the
\* handshake stage whose worker is calling, its cooldown over at
\* StarveHorizon at the latest.
DueHandshake(id) ==
    /\ call[StageWorker].kind = "handshake"
    /\ nodes[id].handshake_err # Text(TakenTag)
    /\ id \in HandshakeEligible(nodes, StarveHorizon, call[StageWorker].p)

KeptColumns(row) ==
    [ping_try |-> row.ping_try,
     compat_fork |-> row.compat_fork,
     compat_fork_updated |-> row.compat_fork_updated,
     client_id |-> row.client_id,
     handshake_err |-> row.handshake_err,
     handshake_try |-> row.handshake_try,
     handshake_updated |-> row.handshake_updated,
     neighbor_keys |-> row.neighbor_keys,
     taken_last |-> row.taken_last]

\* The step is an Update*, Reset* or Mark* call that names id.
UpdateCallOn(id) ==
    \/ ResetPingError(id)
    \/ UpdatePingError(id)
    \/ \E c \in ClientIDs : UpdateClientID(id, c)
    \/ \E e \in ErrTags : UpdateHandshakeError(id, e)
    \/ \E b \in BOOLEAN : UpdateForkCompatibility(id, b)
    \/ \E keys \in KeyLists : UpdateNeighborBucketKeys(id, keys)
    \/ \E S \in SUBSET NodeIDs : id \in S /\ MarkTakenNodes(S)
    \/ \E S \in SUBSET NodeIDs : id \in S /\ MarkTakenHandshakeCandidates(S)

\* The step is an UpsertNodeAddr call that names id.
UpsertCallOn(id) == \E addr \in MovedAddrs : UpsertNodeAddr(id, addr)

LifecycleStep ==
    /\ Rows(nodes) \subseteq Rows(nodes')
    /\ \A id \in NodeIDs :
        /\ ~nodes[id].exists /\ nodes'[id].exists => UpsertCallOn(id)
        /\ ~nodes[id].exists /\ UpdateCallOn(id) => nodes'[id] = nodes[id]
        /\ nodes[id].exists /\ UpsertCallOn(id) =>
                /\ nodes'[id].exists
                /\ KeptColumns(nodes'[id]) = KeptColumns(nodes[id])
                /\ \A other \in NodeIDs \ {id} : nodes'[other] = nodes[other]

\* C20: no step removes a record; a record appears only in an
\* UpsertNodeAddr call on its id; an Update*, Reset* or Mark* call on an id
\* with no record leaves that id without a record; and UpsertNodeAddr on an
\* existing id leaves ping_try, the fork columns, client_id, handshake_err,
\* handshake_try, handshake_updated, neighbor_keys and taken_last of its
\* row, and every other row, as they were.
C20_RecordLifecycle == [][LifecycleStep]_vars

\* A record with ping and handshake tries, a claim, a crawl mark, a fork
\* verdict and bucket keys, re-discovered at another address a second
\* later than it was marked, next to an id that still has no record after
\* all the calls on it.
C20_Witness ==
    /\ nodes["n1"].exists
    /\ ~nodes["n2"].exists
    /\ nodes["n1"].ping_try > 0
    /\ nodes["n1"].handshake_try > 0
    /\ nodes["n1"].handshake_err = Text(TakenTag)
    /\ nodes["n1"].compat_fork # NULL
    /\ nodes["n1"].neighbor_keys = Text(Join(<<"k1", "k2">>))
    /\ nodes["n1"].taken_last # NULL
    /\ nodes["n1"].addr_updated > nodes["n1"].taken_last
    /\ nodes["n1"].ip_v6 # NullString

====
